---- MODULE Spec2Model ----
(***************************************************************************)
(* A model of python-weektime (src/weektime/__init__.py): the WeekRange   *)
(* value object (construction, classification into one of ten comparison  *)
(* laws, the intersects comparators, attribute immutability) and the      *)
(* WeekRanges list (createFromStr, first-match intersects).                *)
(*                                                                         *)
(* Strings are sequences of one-character strings.  Arguments that the    *)
(* Python code accepts as "None, int or str" are tagged records           *)
(* [kind |-> "none"], [kind |-> "int", val |-> n], [kind |-> "str",       *)
(* val |-> chars].                                                         *)
(***************************************************************************)
EXTENDS Integers, Sequences, FiniteSets, TLC

(* ------------------------------ bounds -------------------------------- *)
\* hours of the modelled clock are 0..MaxHour, minutes 0..MaxMinute: the
\* comparators only compare hours and minutes by <, = and >, so three values
\* of each reach every branch (below, equal, strictly between, above).
MaxHour == 2
MaxMinute == 2
\* a ranges string is made of at most MaxSegs comma-separated segments
MaxSegs == 3

(* ------------------------- Python values ------------------------------ *)
\* Python's None in an integer slot (startDay / endDay)
None == -1
\* weekdays of an instant: int(datetimeObj.strftime('%w')) is 0..6
LastWeekDay == 6

NoneArg == [kind |-> "none", val |-> <<>>]
IntArg(n) == [kind |-> "int", val |-> <<n>>]
StrArg(s) == [kind |-> "str", val |-> s]

Digits == <<"0", "1", "2", "3", "4", "5", "6", "7", "8", "9">>
UpperCase == <<"A","B","C","D","E","F","G","H","I","J","K","L","M",
               "N","O","P","Q","R","S","T","U","V","W","X","Y","Z">>
LowerCase == <<"a","b","c","d","e","f","g","h","i","j","k","l","m",
               "n","o","p","q","r","s","t","u","v","w","x","y","z">>

IsDigit(c) == \E i \in 1..10 : Digits[i] = c
IsAlpha(c) == \E i \in 1..26 : UpperCase[i] = c \/ LowerCase[i] = c
DigitVal(c) == (CHOOSE i \in 1..10 : Digits[i] = c) - 1

\* str.isdigit(): non-empty and every character a digit
StrIsDigit(s) == Len(s) > 0 /\ \A i \in 1..Len(s) : IsDigit(s[i])

\* int(str) of a digit string
RECURSIVE StrToInt(_)
StrToInt(s) ==
    IF Len(s) = 0 THEN 0
    ELSE 10 * StrToInt(SubSeq(s, 1, Len(s) - 1)) + DigitVal(s[Len(s)])

\* str.lower()
LowerChar(c) ==
    IF \E i \in 1..26 : UpperCase[i] = c
    THEN LowerCase[CHOOSE i \in 1..26 : UpperCase[i] = c]
    ELSE c
StrLower(s) == [i \in 1..Len(s) |-> LowerChar(s[i])]

\* int(x) of an int or a digit string (hours and minutes, lines 144-154)
PyInt(arg) == IF arg.kind = "int" THEN arg.val[1] ELSE StrToInt(arg.val)

(* ------------------------ weekday resolution -------------------------- *)
\* getWeekDayAbbreviations(lower=True), Sunday first, in the C/English locale
getWeekDayAbbreviations ==
    << <<"s","u","n">>, <<"m","o","n">>, <<"t","u","e">>, <<"w","e","d">>,
       <<"t","h","u">>, <<"f","r","i">>, <<"s","a","t">> >>

\* dayStrToNumber: [exc, val]
dayStrToNumber(dayStr) ==
    IF StrIsDigit(dayStr)
    THEN IF StrToInt(dayStr) >= 7
         THEN [exc |-> "WeekRangeValueError", val |-> None]
         ELSE [exc |-> "None", val |-> StrToInt(dayStr)]
    ELSE LET low == StrLower(dayStr)
             cut == IF Len(low) > 3 THEN SubSeq(low, 1, 3) ELSE low
         IN  IF \E i \in 1..7 : getWeekDayAbbreviations[i] = cut
             THEN [exc |-> "None",
                   val |-> (CHOOSE i \in 1..7 : getWeekDayAbbreviations[i] = cut) - 1]
             ELSE [exc |-> "WeekRangeValueError", val |-> None]

\* lines 138-143 / 147-152: a day argument is a str, None or an int
ResolveDay(arg) ==
    IF arg.kind = "str" THEN dayStrToNumber(arg.val)
    ELSE IF arg.kind = "none" THEN [exc |-> "None", val |-> None]
    ELSE [exc |-> "None", val |-> arg.val[1]]

(* ------------------------------ WeekRange ----------------------------- *)
\* a fresh instance: every slot of __slots__ unset (isSetup reads as False
\* through getattr(self, 'isSetup', False))
BlankInstance ==
    [startDay |-> None, startHour |-> 0, startMinute |-> 0,
     endDay |-> None, endHour |-> 0, endMinute |-> 0,
     intersects |-> "unset", isSetup |-> FALSE]

Slots == {"startDay", "startHour", "startMinute", "endDay", "endHour",
          "endMinute", "intersects", "isSetup"}

\* a mutation the guard forgets: the assignment goes through
SetAttrUnguarded(obj, attrName, attrValue) ==
    [exc |-> "None", obj |-> [obj EXCEPT ![attrName] = attrValue]]

\* WeekRange.__setattr__: [exc, obj]
WeekRange_setattr(obj, attrName, attrValue) ==
    IF attrName = "isSetup" /\ obj.isSetup = FALSE
    THEN [exc |-> "None", obj |-> [obj EXCEPT ![attrName] = attrValue]]
    ELSE IF obj.isSetup = TRUE
         THEN [exc |-> "AttributeError", obj |-> obj]
         ELSE [exc |-> "None", obj |-> [obj EXCEPT ![attrName] = attrValue]]

\* self.<attrName> = attrValue inside __init__
Assign(obj, attrName, attrValue) == WeekRange_setattr(obj, attrName, attrValue).obj

Raise(kind) == [exc |-> kind, obj |-> BlankInstance]

\* lines 166-196: the comparison law bound to self.intersects, or the error
\* raised instead ("None" when a comparator is bound)
ClassifyError(o) ==
    IF o.startDay = None
    THEN IF o.endDay # None THEN "WeekRangeValueError"
         ELSE IF o.startHour = o.endHour /\ o.startMinute = o.endMinute
              THEN "WeekRangeValueError"
              ELSE "None"
    ELSE IF o.startDay = o.endDay /\ o.startHour = o.endHour
            /\ o.startMinute = o.endMinute
         THEN "ValueError"
         ELSE "None"

Classify(o) ==
    IF o.startDay = None
    THEN IF o.startHour > o.endHour THEN "_intersectsTimeOnlyOuter"
         ELSE IF o.startHour = o.endHour
              THEN IF o.startMinute > o.endMinute
                   THEN "_intersectsTimeOnlyOuterMinOnly"
                   ELSE "_intersectsTimeOnlyInnerMinOnly"
              ELSE "_intersectsTimeOnlyInner"
    ELSE IF o.startDay > o.endDay THEN "_intersectsOuter"
         ELSE IF o.startDay = o.endDay
              THEN IF o.startHour > o.endHour THEN "_intersectsOuterSameDay"
                   ELSE IF o.startHour = o.endHour
                        THEN IF o.startMinute > o.endMinute
                             THEN "_intersectsOuterSameDaySameHour"
                             ELSE "_intersectsInnerSameDaySameHour"
                        ELSE "_intersectsInnerSameDay"
              ELSE "_intersectsInner"

\* lines 158-163 with the auto-fill test dropped: a missing end day always
\* takes the start day
AutoFillAlways(o) ==
    IF o.endDay = None /\ o.startDay # None
    THEN [exc |-> "None", obj |-> Assign(o, "endDay", o.startDay)]
    ELSE [exc |-> "None", obj |-> o]

\* lines 158-163: "Mon 12:00 - 18:00" is allowed, "Mon 18:00 - 12:00" is not
AutoFillEndDay(o) ==
    IF o.endDay = None /\ o.startDay # None
    THEN IF o.endHour > o.startHour
            \/ (o.endHour = o.startHour /\ o.endMinute > o.startMinute)
         THEN [exc |-> "None", obj |-> Assign(o, "endDay", o.startDay)]
         ELSE Raise("WeekRangeValueError")
    ELSE [exc |-> "None", obj |-> o]

\* WeekRange.__init__: [exc, obj]; obj is the constructed range when exc is
\* "None", and no range is produced otherwise
WeekRange_init(startDay, startHour, startMinute, endDay, endHour, endMinute) ==
    LET o0 == Assign(BlankInstance, "isSetup", FALSE)
        sd == ResolveDay(startDay)
        ed == ResolveDay(endDay)
    IN  IF sd.exc # "None" THEN Raise(sd.exc)
        ELSE IF ed.exc # "None" THEN Raise(ed.exc)
        ELSE
          LET o1 == Assign(o0, "startDay", sd.val)
              o2 == Assign(o1, "startHour", PyInt(startHour))
              o3 == Assign(o2, "startMinute", PyInt(startMinute))
              o4 == Assign(o3, "endDay", ed.val)
              o5 == Assign(o4, "endHour", PyInt(endHour))
              o6 == Assign(o5, "endMinute", PyInt(endMinute))
              af == AutoFillEndDay(o6)
          IN  IF af.exc # "None" THEN Raise(af.exc)
              ELSE IF ClassifyError(af.obj) # "None"
                   THEN Raise(ClassifyError(af.obj))
                   ELSE [exc |-> "None",
                         obj |-> Assign(Assign(af.obj, "intersects", Classify(af.obj)),
                                        "isSetup", TRUE)]

(* ----------------------------- comparators ---------------------------- *)
\* each takes the range and the instant [weekday, hour, minute]

_intersectsTimeOnlyOuterMinOnly(self, datetimeObj) ==
    LET minute == datetimeObj.minute
    IN  IF minute >= self.endMinute /\ minute < self.startMinute THEN FALSE
        ELSE TRUE

_intersectsTimeOnlyInnerMinOnly(self, datetimeObj) ==
    LET minute == datetimeObj.minute
    IN  IF datetimeObj.hour # self.startHour THEN FALSE
        ELSE IF minute < self.startMinute \/ minute >= self.endMinute THEN FALSE
        ELSE TRUE

_intersectsTimeOnlyOuter(self, datetimeObj) ==
    LET hour == datetimeObj.hour
        minute == datetimeObj.minute
    IN  IF hour < self.startHour /\ hour > self.endHour THEN FALSE
        ELSE IF hour = self.startHour
             THEN (IF minute < self.startMinute THEN FALSE ELSE TRUE)
        ELSE IF hour = self.endHour
             THEN (IF minute >= self.endMinute THEN FALSE ELSE TRUE)
        ELSE TRUE

_intersectsTimeOnlyInner(self, datetimeObj) ==
    LET hour == datetimeObj.hour
        minute == datetimeObj.minute
    IN  IF hour = self.startHour
        THEN (IF minute >= self.startMinute THEN TRUE ELSE FALSE)
        ELSE IF hour = self.endHour
             THEN (IF minute < self.endMinute THEN TRUE ELSE FALSE)
        ELSE IF hour < self.startHour \/ hour > self.endHour THEN FALSE
        ELSE TRUE

\* the value _intersectsInner returns once the debugger lets it run on
\* (lines 291-308); the breakpoint of line 289 is HasBreakpoint below
_intersectsInner(self, datetimeObj) ==
    LET day == datetimeObj.weekday
        hour == datetimeObj.hour
        minute == datetimeObj.minute
    IN  IF day < self.startDay \/ day > self.endDay THEN FALSE
        ELSE IF day = self.startDay
             THEN IF hour > self.startHour THEN TRUE
                  ELSE IF hour = self.startHour /\ minute >= self.startMinute THEN TRUE
                  ELSE FALSE
        ELSE IF day = self.endDay
             THEN IF hour < self.endHour THEN TRUE
                  ELSE IF hour = self.endHour /\ minute < self.endMinute THEN TRUE
                  ELSE FALSE
        ELSE TRUE

_intersectsInnerSameDay(self, datetimeObj) ==
    LET day == datetimeObj.weekday
        hour == datetimeObj.hour
        minute == datetimeObj.minute
    IN  IF day # self.startDay THEN FALSE
        ELSE IF hour < self.startHour \/ hour > self.endHour THEN FALSE
        ELSE IF hour = self.startHour /\ minute >= self.startMinute THEN TRUE
        ELSE IF hour = self.endHour /\ minute < self.endMinute THEN TRUE
        ELSE FALSE

_intersectsInnerSameDaySameHour(self, datetimeObj) ==
    LET day == datetimeObj.weekday
        hour == datetimeObj.hour
        minute == datetimeObj.minute
    IN  IF day # self.startDay \/ hour # self.startHour THEN FALSE
        ELSE IF minute >= self.startMinute /\ minute < self.endMinute THEN TRUE
        ELSE FALSE

_intersectsOuter(self, datetimeObj) ==
    LET day == datetimeObj.weekday
        hour == datetimeObj.hour
        minute == datetimeObj.minute
    IN  IF day > self.endDay /\ day < self.startDay THEN FALSE
        ELSE IF day = self.startDay
             THEN IF hour < self.startHour THEN FALSE
                  ELSE IF hour = self.startHour /\ minute < self.startMinute THEN FALSE
                  ELSE TRUE
        ELSE IF day = self.endDay
             THEN IF hour > self.endHour THEN FALSE
                  ELSE IF hour = self.endHour /\ minute >= self.endMinute THEN FALSE
                  ELSE TRUE
        ELSE TRUE

_intersectsOuterSameDay(self, datetimeObj) ==
    LET day == datetimeObj.weekday
        hour == datetimeObj.hour
        minute == datetimeObj.minute
    IN  IF day # self.startDay THEN TRUE
        ELSE IF hour > self.startHour \/ hour < self.endHour THEN TRUE
        ELSE IF hour = self.startHour
             THEN (IF minute >= self.startMinute THEN TRUE ELSE FALSE)
        ELSE IF hour = self.endHour
             THEN (IF minute < self.endMinute THEN TRUE ELSE FALSE)
        ELSE FALSE

_intersectsOuterSameDaySameHour(self, datetimeObj) ==
    LET day == datetimeObj.weekday
        hour == datetimeObj.hour
        minute == datetimeObj.minute
    IN  IF day # self.startDay \/ hour # self.startHour THEN TRUE
        ELSE IF minute < self.startMinute /\ minute >= self.endMinute THEN FALSE
        ELSE TRUE

\* self.intersects(datetimeObj): the call goes to the comparator bound at
\* construction
BoundIntersects(self, datetimeObj) ==
    CASE self.intersects = "_intersectsTimeOnlyOuter" ->
             _intersectsTimeOnlyOuter(self, datetimeObj)
      [] self.intersects = "_intersectsTimeOnlyOuterMinOnly" ->
             _intersectsTimeOnlyOuterMinOnly(self, datetimeObj)
      [] self.intersects = "_intersectsTimeOnlyInnerMinOnly" ->
             _intersectsTimeOnlyInnerMinOnly(self, datetimeObj)
      [] self.intersects = "_intersectsTimeOnlyInner" ->
             _intersectsTimeOnlyInner(self, datetimeObj)
      [] self.intersects = "_intersectsOuter" ->
             _intersectsOuter(self, datetimeObj)
      [] self.intersects = "_intersectsOuterSameDay" ->
             _intersectsOuterSameDay(self, datetimeObj)
      [] self.intersects = "_intersectsOuterSameDaySameHour" ->
             _intersectsOuterSameDaySameHour(self, datetimeObj)
      [] self.intersects = "_intersectsInnerSameDaySameHour" ->
             _intersectsInnerSameDaySameHour(self, datetimeObj)
      [] self.intersects = "_intersectsInnerSameDay" ->
             _intersectsInnerSameDay(self, datetimeObj)
      [] self.intersects = "_intersectsInner" ->
             _intersectsInner(self, datetimeObj)

\* line 289: "import pdb; pdb.set_trace()" stops the call at the debugger
\* prompt before the comparison runs
HasBreakpoint(self) == self.intersects = "_intersectsInner"

(* ------------------------------ strings ------------------------------- *)
Whitespace == {" ", "\t", "\n", "\r"}

\* str.strip()
RECURSIVE StripLeft(_)
StripLeft(s) ==
    IF Len(s) > 0 /\ s[1] \in Whitespace THEN StripLeft(Tail(s)) ELSE s
RECURSIVE StripRight(_)
StripRight(s) ==
    IF Len(s) > 0 /\ s[Len(s)] \in Whitespace
    THEN StripRight(SubSeq(s, 1, Len(s) - 1))
    ELSE s
Strip(s) == StripRight(StripLeft(s))

\* str.split(','): the pieces between the commas, empty pieces included
RECURSIVE SplitFrom(_, _, _)
SplitFrom(s, i, piece) ==
    IF i > Len(s) THEN <<piece>>
    ELSE IF s[i] = "," THEN <<piece>> \o SplitFrom(s, i + 1, <<>>)
    ELSE SplitFrom(s, i + 1, Append(piece, s[i]))
Split(s) == SplitFrom(s, 1, <<>>)

(* --------------------------- WEEK_RANGE_RE ---------------------------- *)
\* The expression is matched left to right.  Neighbouring parts of it accept
\* disjoint characters (space, letter, digit, ':', '-'), so taking each part
\* greedily matches exactly the strings the backtracking matcher matches.

\* [ ]* from position i: the position after the spaces
RECURSIVE SkipSpaces(_, _)
SkipSpaces(s, i) ==
    IF i <= Len(s) /\ s[i] = " " THEN SkipSpaces(s, i + 1) ELSE i

\* ([a-zA-Z]{3}){0,1} at position i: the group and the position after it
TakeDay(s, i) ==
    IF i + 2 <= Len(s) /\ IsAlpha(s[i]) /\ IsAlpha(s[i + 1]) /\ IsAlpha(s[i + 2])
    THEN [group |-> StrArg(SubSeq(s, i, i + 2)), next |-> i + 3]
    ELSE [group |-> NoneArg, next |-> i]

\* ([\d]{1,2}) at position i: ok is FALSE when no digit stands there
TakeNumber(s, i) ==
    IF i <= Len(s) /\ IsDigit(s[i])
    THEN IF i + 1 <= Len(s) /\ IsDigit(s[i + 1])
         THEN [ok |-> TRUE, group |-> StrArg(SubSeq(s, i, i + 1)), next |-> i + 2]
         ELSE [ok |-> TRUE, group |-> StrArg(SubSeq(s, i, i)), next |-> i + 1]
    ELSE [ok |-> FALSE, group |-> NoneArg, next |-> i]

\* a literal character at position i
IsChar(s, i, c) == i <= Len(s) /\ s[i] = c

\* $: the end of the string, or just before a newline that ends it
AtDollar(s, i) == i = Len(s) + 1 \/ (i = Len(s) /\ s[i] = "\n")

NoMatch ==
    [ok |-> FALSE, startDay |-> NoneArg, startHour |-> NoneArg,
     startMinute |-> NoneArg, endDay |-> NoneArg, endHour |-> NoneArg,
     endMinute |-> NoneArg]

\* WEEK_RANGE_RE.match(rangeStr): ok and the groupdict
WEEK_RANGE_RE(s) ==
    LET d1 == TakeDay(s, SkipSpaces(s, 1))
        h1 == TakeNumber(s, SkipSpaces(s, d1.next))
        m1 == TakeNumber(s, h1.next + 1)
        dash == SkipSpaces(s, m1.next)
        d2 == TakeDay(s, SkipSpaces(s, dash + 1))
        h2 == TakeNumber(s, SkipSpaces(s, d2.next))
        m2 == TakeNumber(s, h2.next + 1)
    IN  IF /\ h1.ok /\ IsChar(s, h1.next, ":") /\ m1.ok
           /\ IsChar(s, dash, "-")
           /\ h2.ok /\ IsChar(s, h2.next, ":") /\ m2.ok
           /\ AtDollar(s, SkipSpaces(s, m2.next))
        THEN [ok |-> TRUE, startDay |-> d1.group, startHour |-> h1.group,
              startMinute |-> m1.group, endDay |-> d2.group,
              endHour |-> h2.group, endMinute |-> m2.group]
        ELSE NoMatch

\* WeekRange.createFromStr: [exc, obj]
WeekRange_createFromStr(rangeStr) ==
    LET matchObj == WEEK_RANGE_RE(rangeStr)
    IN  IF ~matchObj.ok THEN Raise("ValueError")
        ELSE WeekRange_init(matchObj.startDay, matchObj.startHour,
                            matchObj.startMinute, matchObj.endDay,
                            matchObj.endHour, matchObj.endMinute)

(* ----------------------------- WeekRanges ----------------------------- *)
\* the loop of WeekRanges.createFromStr with a failing segment passed over
\* instead of ending the call
RECURSIVE AppendRangesLenient(_, _, _)
AppendRangesLenient(rangeStrs, i, acc) ==
    IF i > Len(rangeStrs) THEN [exc |-> "None", list |-> acc]
    ELSE IF Len(rangeStrs[i]) = 0 THEN AppendRangesLenient(rangeStrs, i + 1, acc)
    ELSE LET r == WeekRange_createFromStr(rangeStrs[i])
         IN  IF r.exc # "None" THEN AppendRangesLenient(rangeStrs, i + 1, acc)
             ELSE AppendRangesLenient(rangeStrs, i + 1, Append(acc, r.obj))

\* lines 437-442: the loop over rangeStrs from position i on, ret being acc
RECURSIVE AppendRanges(_, _, _)
AppendRanges(rangeStrs, i, acc) ==
    IF i > Len(rangeStrs) THEN [exc |-> "None", list |-> acc]
    ELSE IF Len(rangeStrs[i]) = 0 THEN AppendRanges(rangeStrs, i + 1, acc)
    ELSE LET r == WeekRange_createFromStr(rangeStrs[i])
         IN  IF r.exc # "None" THEN [exc |-> r.exc, list |-> <<>>]
             ELSE AppendRanges(rangeStrs, i + 1, Append(acc, r.obj))

\* WeekRanges.createFromStr: [exc, list]; no list is returned when exc is
\* not "None"
WeekRanges_createFromStr(text) ==
    LET pieces == Split(text)
        rangeStrs == [i \in 1..Len(pieces) |-> Strip(pieces[i])]
    IN  AppendRanges(rangeStrs, 1, <<>>)

\* lines 452-456: the loop of WeekRanges.intersects from member i on, up to
\* its return (at = position of the member returned, 0 for False) or to the
\* debugger prompt of a member bound to _intersectsInner (at = its position)
RECURSIVE Scan(_, _, _)
Scan(list, datetimeObj, i) ==
    IF i > Len(list) THEN [stop |-> "return", at |-> 0]
    ELSE IF HasBreakpoint(list[i]) THEN [stop |-> "pdb", at |-> i]
    ELSE IF BoundIntersects(list[i], datetimeObj) THEN [stop |-> "return", at |-> i]
    ELSE Scan(list, datetimeObj, i + 1)

\* the same loop resumed after the debugger let member i run on
Resume(list, datetimeObj, i) ==
    IF BoundIntersects(list[i], datetimeObj) THEN [stop |-> "return", at |-> i]
    ELSE Scan(list, datetimeObj, i + 1)

(* ------------------------------- state -------------------------------- *)
VARIABLES
    args,       \* the arguments the constructor was called with
    self,       \* the WeekRange under test (BlankInstance until constructed)
    pc,         \* where the caller is: "start", "ready", "pdb", "returned", "raised"
    op,         \* the operation called last
    exc,        \* the exception the last operation raised, "None" if none
    dt,         \* the instant handed to intersects
    ret,        \* what WeekRange.intersects returned (read when pc = "returned")
    rangesStr,  \* the text handed to WeekRanges.createFromStr
    ranges,     \* the WeekRanges list
    idx,        \* WeekRanges.intersects: position of the member being asked
    found       \* WeekRanges.intersects: position of the member returned, 0 = False

vars == <<args, self, pc, op, exc, dt, ret, rangesStr, ranges, idx, found>>
setVars == <<rangesStr, ranges, idx, found>>

Hours == 0..MaxHour
Minutes == 0..MaxMinute
WeekDays == 0..LastWeekDay
Instants == [weekday : WeekDays, hour : Hours, minute : Minutes]

\* day arguments given to the constructor: None or an int
DayArgs == {NoneArg} \cup {IntArg(d) : d \in WeekDays}

\* values a caller tries to assign to a slot
AttrValues(attrName) ==
    IF attrName = "isSetup" THEN BOOLEAN
    ELSE IF attrName = "intersects"
         THEN {"_intersectsInner", "_intersectsOuter", "_intersectsTimeOnlyInner"}
    ELSE IF attrName \in {"startDay", "endDay"} THEN WeekDays \cup {None}
    ELSE IF attrName \in {"startHour", "endHour"} THEN Hours
    ELSE Minutes

NoArgs ==
    [startDay |-> NoneArg, startHour |-> IntArg(0), startMinute |-> IntArg(0),
     endDay |-> NoneArg, endHour |-> IntArg(0), endMinute |-> IntArg(0)]

Init ==
    /\ args = NoArgs
    /\ self = BlankInstance
    /\ pc = "start"
    /\ op = "none"
    /\ exc = "None"
    /\ dt = [weekday |-> 0, hour |-> 0, minute |-> 0]
    /\ ret = FALSE
    /\ rangesStr = <<>>
    /\ ranges = <<>>
    /\ idx = 0
    /\ found = 0

\* WeekRange(startDay, startHour, startMinute, endDay, endHour, endMinute)
New ==
    /\ pc = "start"
    /\ \E sd \in DayArgs, ed \in DayArgs, sh \in Hours, eh \in Hours,
          sm \in Minutes, em \in Minutes :
          LET r == WeekRange_init(sd, IntArg(sh), IntArg(sm), ed, IntArg(eh), IntArg(em))
          IN  /\ args' = [startDay |-> sd, startHour |-> IntArg(sh),
                           startMinute |-> IntArg(sm), endDay |-> ed,
                           endHour |-> IntArg(eh), endMinute |-> IntArg(em)]
              /\ self' = r.obj
              /\ exc' = r.exc
              /\ pc' = IF r.exc = "None" THEN "ready" ELSE "raised"
    /\ op' = "__init__"
    /\ UNCHANGED <<dt, ret, setVars>>

\* self.<attrName> = attrValue from outside, after construction
SetAttr ==
    /\ pc = "ready"
    /\ \E attrName \in Slots :
          \E attrValue \in AttrValues(attrName) :
             LET r == WeekRange_setattr(self, attrName, attrValue)
             IN  /\ self' = r.obj
                 /\ exc' = r.exc
    /\ op' = "__setattr__"
    /\ UNCHANGED <<args, pc, dt, ret, setVars>>

\* self.intersects(datetimeObj): runs the bound comparator to its return, or
\* stops at the debugger prompt of _intersectsInner
Intersects ==
    /\ pc = "ready"
    /\ \E d \in Instants :
          /\ dt' = d
          /\ IF HasBreakpoint(self)
             THEN pc' = "pdb" /\ ret' = ret
             ELSE pc' = "returned" /\ ret' = BoundIntersects(self, d)
    /\ op' = "intersects"
    /\ exc' = "None"
    /\ UNCHANGED <<args, self, setVars>>

\* the debugger is told to continue: the comparison runs and returns
PdbContinue ==
    /\ pc = "pdb"
    /\ op = "intersects"
    /\ pc' = "returned"
    /\ ret' = BoundIntersects(self, dt)
    /\ UNCHANGED <<args, self, op, exc, dt, setVars>>

\* the debugger is told to quit, or its input is at end of file: bdb.BdbQuit
\* is raised out of intersects
PdbQuit ==
    /\ pc = "pdb"
    /\ op = "intersects"
    /\ pc' = "raised"
    /\ exc' = "BdbQuit"
    /\ UNCHANGED <<args, self, op, dt, ret, setVars>>

Next == New \/ SetAttr \/ Intersects \/ PdbContinue \/ PdbQuit

Spec == Init /\ [][Next]_vars

(* ----------------------- WeekRanges state machine -------------------- *)
\* the segments the ranges strings are made of:
\*   "Mon 0:00 - 2:00": day auto-fill, inner on one day
\*   "Mon 1:0 - Wed 1:0": inner over several days
\*   "1:0-0:1": day-less, wraps past midnight
\*   "tue 0:1 - SUN 0:0": wraps across the week; day names in any case
\*   "": empty segment
\*   " ": blank segment
\*   "1:0 - ": does not match WEEK_RANGE_RE
\*   "Mon 1:0 - 0:0": start day only, end time not after start time
\*   "25:00 - 26:00": matches WEEK_RANGE_RE with hours past 23
SegmentTexts ==
    { <<"M", "o", "n", " ", "0", ":", "0", "0", " ", "-", " ", "2", ":", "0", "0">>,
      <<"M", "o", "n", " ", "1", ":", "0", " ", "-", " ", "W", "e", "d", " ", "1", ":", "0">>,
      <<"1", ":", "0", "-", "0", ":", "1">>,
      <<"t", "u", "e", " ", "0", ":", "1", " ", "-", " ", "S", "U", "N", " ", "0", ":", "0">>,
      <<>>,
      <<" ">>,
      <<"1", ":", "0", " ", "-", " ">>,
      <<"M", "o", "n", " ", "1", ":", "0", " ", "-", " ", "0", ":", "0">>,
      <<"2", "5", ":", "0", "0", " ", "-", " ", "2", "6", ":", "0", "0">> }

RECURSIVE Join(_)
Join(segs) ==
    IF Len(segs) = 0 THEN <<>>
    ELSE IF Len(segs) = 1 THEN segs[1]
    ELSE segs[1] \o <<",">> \o Join(Tail(segs))

\* the texts handed to WeekRanges.createFromStr
RangesTexts ==
    UNION { {Join(segs) : segs \in [1..n -> SegmentTexts]} : n \in 1..MaxSegs }

\* WeekRanges.createFromStr(rangesStr)
RangesCreateFromStr ==
    /\ pc = "start"
    /\ \E text \in RangesTexts :
          LET r == WeekRanges_createFromStr(text)
          IN  /\ rangesStr' = text
              /\ ranges' = r.list
              /\ exc' = r.exc
              /\ pc' = IF r.exc = "None" THEN "ready" ELSE "raised"
    /\ op' = "createFromStr"
    /\ UNCHANGED <<args, self, dt, ret, idx, found>>

\* where the loop of WeekRanges.intersects stopped
ScanOutcome(r) ==
    /\ pc' = IF r.stop = "pdb" THEN "pdb" ELSE "returned"
    /\ idx' = r.at
    /\ found' = IF r.stop = "pdb" THEN 0 ELSE r.at

\* WeekRanges.intersects(datetimeObj)
RangesIntersects ==
    /\ pc = "ready"
    /\ op = "createFromStr"
    /\ \E d \in Instants :
          /\ dt' = d
          /\ ScanOutcome(Scan(ranges, d, 1))
    /\ op' = "WeekRanges.intersects"
    /\ UNCHANGED <<args, self, exc, ret, rangesStr, ranges>>

\* the debugger is told to continue inside member idx
RangesPdbContinue ==
    /\ pc = "pdb"
    /\ op = "WeekRanges.intersects"
    /\ ScanOutcome(Resume(ranges, dt, idx))
    /\ UNCHANGED <<args, self, op, exc, dt, ret, rangesStr, ranges>>

\* the debugger is told to quit inside member idx: bdb.BdbQuit comes out of
\* WeekRanges.intersects
RangesPdbQuit ==
    /\ pc = "pdb"
    /\ op = "WeekRanges.intersects"
    /\ pc' = "raised"
    /\ exc' = "BdbQuit"
    /\ UNCHANGED <<args, self, op, dt, ret, rangesStr, ranges, idx, found>>

NextSet == RangesCreateFromStr \/ RangesIntersects \/ RangesPdbContinue \/ RangesPdbQuit

SpecSet == Init /\ [][NextSet]_vars

(* ====================== properties of WeekRange ======================= *)
\* minutes since the start of the week / of the day
WeekMinute(d, h, m) == d * 1440 + h * 60 + m
\* t in [s, e) on a cycle
InInterval(s, e, t) == IF s < e THEN s <= t /\ t < e ELSE t >= s \/ t < e

Returned == op = "intersects" /\ pc = "returned"
Called == op = "intersects"
DayBound(o) == o.isSetup /\ o.startDay # None
DayLess(o) == o.isSetup /\ o.startDay = None

AtStart(o, d) ==
    /\ d.hour = o.startHour /\ d.minute = o.startMinute
    /\ o.startDay # None => d.weekday = o.startDay
AtEnd(o, d) ==
    /\ d.hour = o.endHour /\ d.minute = o.endMinute
    /\ o.endDay # None => d.weekday = o.endDay

\* C1: on a day-bound range, intersects returns true exactly when the
\* instant lies in [start, end) on the weekly cycle of minutes.
C1_DayBoundLaw ==
    (Returned /\ DayBound(self)) =>
        ret = InInterval(WeekMinute(self.startDay, self.startHour, self.startMinute),
                         WeekMinute(self.endDay, self.endHour, self.endMinute),
                         WeekMinute(dt.weekday, dt.hour, dt.minute))

\* C2: on a day-less range, intersects returns true exactly when the time of
\* day lies in [start, end) on the 24-hour cycle, on every weekday.
C2_DayLessLaw ==
    (Returned /\ DayLess(self)) =>
        ret = InInterval(WeekMinute(0, self.startHour, self.startMinute),
                         WeekMinute(0, self.endHour, self.endMinute),
                         WeekMinute(0, dt.hour, dt.minute))

\* C3: a call of intersects at the declared start returns true, and a call at
\* the declared end returns false, in every one of the ten cases.
C3_BoundaryReturns ==
    /\ (Called /\ AtStart(self, dt)) => (pc = "returned" /\ ret = TRUE)
    /\ (Called /\ AtEnd(self, dt)) => (pc = "returned" /\ ret = FALSE)

\* What the comparators compute at the two boundary instants whenever the
\* call does return (a lemma about the values, not C3 itself).
BoundaryValuesWhenReturned ==
    /\ (Returned /\ AtStart(self, dt)) => ret = TRUE
    /\ (Returned /\ AtEnd(self, dt)) => ret = FALSE

\* the range built with start and end exchanged
Reversed(o) ==
    WeekRange_init(IntArg(o.endDay), IntArg(o.endHour), IntArg(o.endMinute),
                   IntArg(o.startDay), IntArg(o.startHour), IntArg(o.startMinute)).obj
IsInnerDayBound(o) ==
    /\ DayBound(o)
    /\ WeekMinute(o.startDay, o.startHour, o.startMinute)
          < WeekMinute(o.endDay, o.endHour, o.endMinute)

\* C4: away from the two boundary instants, a day-bound inner range and the
\* range with start and end exchanged give opposite answers.
C4_ReversedIsComplement ==
    (Returned /\ IsInnerDayBound(self) /\ ~AtStart(self, dt) /\ ~AtEnd(self, dt)) =>
        ret = ~BoundIntersects(Reversed(self), dt)

\* the constructor was asked for a range whose resolved start equals its
\* resolved end
ZeroLengthArgs ==
    /\ op = "__init__"
    /\ ResolveDay(args.startDay).exc = "None"
    /\ ResolveDay(args.endDay).exc = "None"
    /\ ResolveDay(args.startDay).val = ResolveDay(args.endDay).val
    /\ PyInt(args.startHour) = PyInt(args.endHour)
    /\ PyInt(args.startMinute) = PyInt(args.endMinute)

\* C5: a zero-length range is refused with WeekRangeValueError, day-less or
\* day-bound alike, and no range is produced.
C5_ZeroLengthError ==
    ZeroLengthArgs =>
        (pc = "raised" /\ exc = "WeekRangeValueError" /\ self = BlankInstance)

EndAfterStart ==
    \/ PyInt(args.endHour) > PyInt(args.startHour)
    \/ /\ PyInt(args.endHour) = PyInt(args.startHour)
       /\ PyInt(args.endMinute) > PyInt(args.startMinute)
Refused == pc = "raised" /\ exc = "WeekRangeValueError" /\ self = BlankInstance

\* C6: a constructed range has both days or neither; a start day without an
\* end day is accepted only when the end time is after the start time, and
\* the end day is then the start day; every other one-sided day is refused
\* with WeekRangeValueError and no range is produced.
C6_DaySymmetry ==
    /\ self.isSetup => ((self.startDay = None) <=> (self.endDay = None))
    /\ (op = "__init__" /\ args.startDay.kind = "int" /\ args.endDay.kind = "none") =>
          IF EndAfterStart
          THEN /\ pc = "ready" /\ exc = "None" /\ self.isSetup
               /\ self.startDay = args.startDay.val[1]
               /\ self.endDay = self.startDay
          ELSE Refused
    /\ (op = "__init__" /\ args.startDay.kind = "none" /\ args.endDay.kind = "int") =>
          Refused

C6_Witness ==
    /\ op = "__init__" /\ args.startDay.kind = "int" /\ args.endDay.kind = "none"
    /\ pc = "ready" /\ self.endDay = self.startDay /\ self.startDay # None

\* C7: once a range is constructed, every assignment to one of its slots
\* fails with the immutability error and the range keeps every value
\* construction gave it, the bound comparator and isSetup included.
C7_Frozen ==
    self.isSetup =>
        /\ self = WeekRange_init(args.startDay, args.startHour, args.startMinute,
                                 args.endDay, args.endHour, args.endMinute).obj
        /\ op = "__setattr__" => exc = "AttributeError"

C7_Witness == self.isSetup /\ op = "__setattr__" /\ exc = "AttributeError"

\* C8: a call of intersects on a constructed range runs to its return: it
\* neither raises nor stops to wait for input.
C8_IntersectsCompletes == Called => pc = "returned"

(* ====================== properties of WeekRanges ====================== *)
Matching(list, d) == {i \in 1..Len(list) : BoundIntersects(list[i], d)}
\* the lowest position of a member that matches d, 0 when none does
FirstMatch(list, d) ==
    IF Matching(list, d) = {} THEN 0
    ELSE CHOOSE i \in Matching(list, d) : \A j \in Matching(list, d) : i <= j

SetCalled == op = "WeekRanges.intersects"

\* C9: WeekRanges.intersects returns the member at the lowest position that
\* matches the instant, and False (0) when no member matches.
C9_FirstMatchReturned ==
    SetCalled => (pc = "returned" /\ found = FirstMatch(ranges, dt))

\* What the loop answers whenever it does return (a lemma about the value,
\* not C9 itself).
FirstMatchWhenReturned ==
    (SetCalled /\ pc = "returned") => found = FirstMatch(ranges, dt)

\* the segments of a text, read off the positions of its commas
CommaPositions(s) == {i \in 1..Len(s) : s[i] = ","}
NumSegments(s) == Cardinality(CommaPositions(s)) + 1
\* position of the k-th comma; 0 before the first and Len+1 after the last
CommaAt(s, k) ==
    IF k = 0 THEN 0
    ELSE IF k > Cardinality(CommaPositions(s)) THEN Len(s) + 1
    ELSE CHOOSE i \in CommaPositions(s) :
            Cardinality({j \in CommaPositions(s) : j < i}) = k - 1
Segment(s, k) == Strip(SubSeq(s, CommaAt(s, k - 1) + 1, CommaAt(s, k) - 1))
NonEmptySegments(s) == {k \in 1..NumSegments(s) : Len(Segment(s, k)) > 0}
FailingSegments(s) ==
    {k \in NonEmptySegments(s) : WeekRange_createFromStr(Segment(s, k)).exc # "None"}
\* the j-th non-empty segment
NthNonEmpty(s, j) ==
    CHOOSE k \in NonEmptySegments(s) :
        Cardinality({i \in NonEmptySegments(s) : i < k}) = j - 1
FirstFailing(s) ==
    CHOOSE k \in FailingSegments(s) : \A i \in FailingSegments(s) : k <= i

\* C10: WeekRanges.createFromStr gives one range per non-empty segment, in
\* the order of the segments, when every such segment is well formed, and
\* otherwise fails with the error of the first failing segment and gives no
\* list.
C10_AllOrNothing ==
    op = "createFromStr" =>
        IF FailingSegments(rangesStr) = {}
        THEN /\ pc = "ready" /\ exc = "None"
             /\ Len(ranges) = Cardinality(NonEmptySegments(rangesStr))
             /\ \A j \in 1..Len(ranges) :
                   ranges[j] =
                     WeekRange_createFromStr(Segment(rangesStr, NthNonEmpty(rangesStr, j))).obj
        ELSE /\ pc = "raised"
             /\ exc = WeekRange_createFromStr(Segment(rangesStr, FirstFailing(rangesStr))).exc
             /\ ranges = <<>>

\* a well-formed segment, then two failing ones with different errors: the
\* call failed with the error of the first of the two
C10_Witness ==
    /\ op = "createFromStr" /\ pc = "raised"
    /\ 1 \in NonEmptySegments(rangesStr) \ FailingSegments(rangesStr)
    /\ \E k \in FailingSegments(rangesStr) :
          WeekRange_createFromStr(Segment(rangesStr, k)).exc # exc

ClockFieldsInRange(o) ==
    /\ o.startHour \in 0..23 /\ o.endHour \in 0..23
    /\ o.startMinute \in 0..59 /\ o.endMinute \in 0..59

\* C11: a text whose hour is outside 0..23 or whose minute is outside 0..59
\* is refused, so every range that parsing constructs has its hours in 0..23
\* and its minutes in 0..59.
C11_ClockFieldsValidated ==
    \A i \in 1..Len(ranges) : ClockFieldsInRange(ranges[i])
====
